---- MODULE Spec2Model ----
(***************************************************************************)
(* The Yul / inline-assembly parser of libyul/AsmParser.cpp as a state     *)
(* machine.  One parser object is constructed and parse() is called on it.  *)
(* The recursive descent is made explicit: `stack` holds one frame per     *)
(* active grammar production (its name, its position `pc` and its locals), *)
(* and each action is one step of one production that consumes at most one *)
(* token.  The scanner is the environment: the token after an advance() is *)
(* drawn nondeterministically, so every token stream is a behaviour.       *)
(*                                                                         *)
(* AST nodes are carried as summaries (kind plus the fields the checked    *)
(* properties read).  A production hands its node to its caller through    *)
(* the register `ret`, exactly as a C++ return value.                      *)
(*                                                                         *)
(* The static instruction-name tables of instructions() and                *)
(* instructionNames() are process-wide and outside the parser object; the  *)
(* threads that call them are a second specification, SpecInstr.           *)
(***************************************************************************)
EXTENDS Naturals, Sequences, FiniteSets

\* ------------------------------------------------------------------ bounds
\* Scaled-down recursion limit of the RecursionGuard (fatal when exceeded).
MaxRecursionDepth == 8
\* The scanner stops producing break/continue/leave/function/for/switch once
\* the running parse() call has added this many diagnostics to the sink.
MaxErrors == 1
\* The scanner stops producing `,` and `case` once a list under construction
\* (switch cases, assignment targets) holds this many elements.
MaxList == 2
\* parse() calls made on the one parser object.
MaxParses == 1

\* Threads that call instructions() and instructionNames().
MaxThreads == 2

Threads == 1..MaxThreads

\* A std::map whose state the language defines: the pairs it holds; size(),
\* empty(), find() and a walk follow from them.
Map(entries) == [entries |-> entries, indeterminate |-> FALSE]

\* A std::map after undefined behaviour (a data race on the object).  Nothing
\* about it is defined any more: it may hold any nodes with any keys and
\* values, whole or torn, size() may be any number, above or below the
\* number of keys, and a walk may visit anything, fault or not end.  This one
\* value stands for every such state; whatever reads it chooses its outcome
\* freely, and no later write makes the map sound again.
Indeterminate == [entries |-> {}, indeterminate |-> TRUE]

\* ------------------------------------------------------------------ tokens
Tok(type, lit) == [type |-> type, lit |-> lit]

EOS == Tok("EOS", "")

PunctuationTokens ==
    { Tok(p, "") : p \in {"LBrace", "RBrace", "LParen", "RParen", "Comma",
                          "Colon", "AssemblyAssign", "Sub", "GreaterThan"} }

KeywordTokens ==
    { Tok(k, "") : k \in {"Let", "Function", "If", "Switch", "Case",
                          "Default", "For", "Break", "Continue"} }

\* "x": a user name; "leave": the contextual keyword; "add": a built-in.
IdentifierTokens ==
    { Tok("Identifier", l) : l \in {"x", "leave", "add"} }

\* "1" is a valid number lexeme, "0x1g" is not.
LiteralTokens ==
    { Tok("Number", "1"), Tok("Number", "0x1g"), Tok("StringLiteral", "s"),
      Tok("TrueLiteral", "true") }

\* The scanner's alphabet.  The soft-reserved words (return, byte, bool,
\* address) take the paths of an Identifier and `false` that of `true`; the
\* scanner of the model does not produce them.
Tokens == PunctuationTokens \cup KeywordTokens \cup IdentifierTokens
          \cup LiteralTokens \cup {EOS}

\* Token kinds that parseElementaryOperation and expectAsmIdentifier treat
\* as identifiers.
IdentifierClass == {"Identifier", "Return", "Byte", "Bool", "Address"}

LiteralClass == {"StringLiteral", "Number", "TrueLiteral", "FalseLiteral"}

\* ----------------------------------------------------------------- dialect
\* m_dialect.builtin(name)
builtin(name) == name = "add"

\* ------------------------------------------------------- number literals
\* The characters of a lexeme (std::string), one string per character.
Chars(lit) == [i \in 1..Len(lit) |-> SubSeq(lit, i, i)]

OctalDigits == {"0", "1", "2", "3", "4", "5", "6", "7"}

DecimalDigits == OctalDigits \cup {"8", "9"}

HexDigits == DecimalDigits \cup {"a", "b", "c", "d", "e", "f",
                                 "A", "B", "C", "D", "E", "F"}

starts_with_0x(cs) == Len(cs) >= 2 /\ cs[1] = "0" /\ cs[2] = "x"

\* u256(_literal) does not throw.  The conversion takes a leading minus
\* sign, reads the radix off the prefix (0x or 0X hexadecimal, another
\* leading 0 octal, else decimal) and throws at a character that is no digit
\* of the radix; the value wraps at 256 bits without an exception.
ConvertsToU256(cs) ==
    LET ds == IF Len(cs) > 0 /\ cs[1] = "-" THEN Tail(cs) ELSE cs IN
    IF Len(ds) > 1 /\ ds[1] = "0" /\ ds[2] \in {"x", "X"}
    THEN \A i \in 3..Len(ds) : ds[i] \in HexDigits
    ELSE IF Len(ds) > 0 /\ ds[1] = "0"
    THEN \A i \in 2..Len(ds) : ds[i] \in OctalDigits
    ELSE \A i \in 1..Len(ds) : ds[i] \in DecimalDigits

isValidNumberLiteral(lit) ==
    LET cs == Chars(lit) IN
    IF ~ConvertsToU256(cs) THEN FALSE
    ELSE IF starts_with_0x(cs) THEN TRUE
    ELSE \A i \in 1..Len(cs) : cs[i] \in DecimalDigits

\* ------------------------------------------------------------------- state
VARIABLES
    flavour,              \* m_dialect.flavour: "Yul" (typed) or "Loose"
    tok,                  \* the scanner's current token, once the parser has read it
    stack,                \* the active productions, innermost last
    m_recursionDepth,
    m_insideFunction,
    m_currentForLoopComponent,
    errors,               \* the diagnostic sink (m_errorReporter.errors())
    status,               \* "idle" | "parsing"
    ret,                  \* the node the production that returned last gave back
    nexts,                \* scanner advances made by the latest step
    prevBuiltin,          \* the token consumed last is a built-in name
    quiet,                \* steps of the running call since a token was consumed
    emitted,              \* diagnostics reported by the latest step
    result,               \* what the latest parse() returned
    parses,               \* parse() calls made so far
    periodInIdentifier,   \* the scanner mode toggled by parse()
    startInside,          \* m_insideFunction when the current parse() began
    startComponent,       \* m_currentForLoopComponent when it began
    startErrors,          \* number of diagnostics in the sink when it began
    s_instructions,       \* the static map of instructions(): pairs <<name, opcode>>
    s_instructionNames,   \* the static map of instructionNames(): pairs <<opcode, name>>
    threads,              \* where each thread stands in instructions() / instructionNames()
    visible               \* the tables that a call has returned to its caller

vars == <<flavour, tok, stack, m_recursionDepth, m_insideFunction,
          m_currentForLoopComponent, errors, status, ret, nexts, prevBuiltin,
          quiet, emitted, result, parses, periodInIdentifier, startInside, startComponent,
          startErrors, s_instructions, s_instructionNames, threads, visible>>

\* The process-wide state of the instruction-name tables; no production of
\* the parser reads or writes it.
tables == <<s_instructions, s_instructionNames, threads, visible>>

\* ------------------------------------------------------------- AST summaries
\* A node's location is kept as far as the properties read it.  `end` says
\* which token location.end belongs to: "first" is the end of the node's first
\* token (what createWithLocation<T>() sets), "last" the end of the last token
\* its production consumes.
NoNode == [kind |-> "none"]

\* Nodes whose production consumes one token, so that first and last token
\* are the same: the keywords, an Identifier, a built-in name before its
\* argument list, and a Literal or TypedName without a type-name.
SingleToken(node) ==
    \/ node.kind \in {"Break", "Continue", "Leave", "Identifier"}
    \/ node.kind = "FunctionCall" /\ node.shell
    \/ node.kind \in {"Literal", "TypedName"} /\ node.type = ""

\* node.location.end, as a parent that ends with the node sees it: the end of
\* the last token consumed ("last") or of an earlier one ("inner").
EndOf(node) ==
    IF node.end = "last" \/ SingleToken(node) THEN "last" ELSE "inner"

\* The blocks a statement node owns (Switch: see CaseBlocks).
Blocks(node) ==
    CASE node.kind \in {"If", "Case", "FunctionDefinition"} -> <<node.body>>
      [] node.kind = "ForLoop" -> <<node.pre, node.post, node.body>>
      [] OTHER -> <<>>

\* The bodies of the cases of a Switch.
CaseBlocks(cases) == [i \in 1..Len(cases) |-> cases[i].body]

\* The statement lists of a sequence of blocks, one after the other.
RECURSIVE Flat(_)
Flat(blocks) ==
    IF blocks = <<>> THEN <<>>
    ELSE Head(blocks).statements \o Flat(Tail(blocks))

\* The misplaced Break, Continue and Leave nodes a node consists of or holds
\* in the blocks below it, in source order.  This is what the summary of a
\* Block keeps of block.statements: the other statements are read by no
\* property and keeping every statement makes the state space too large to
\* explore (a list of two statement kinds per block gives more than 7.6
\* million states).
Keywords(node) ==
    CASE node.kind \in {"Break", "Continue", "Leave"} ->
            IF node.misplaced THEN <<node>> ELSE <<>>
      [] node.kind = "Block" -> node.statements
      [] node.kind = "Switch" -> Flat(CaseBlocks(node.cases))
      [] OTHER -> Flat(Blocks(node))

\* ------------------------------------------------------------------ frames
Frame(fn, pc) ==
    [fn |-> fn, pc |-> pc,
     outer |-> "-",        \* parseForLoop / parseFunctionDefinition: outerForLoopComponent
     pre |-> FALSE,        \* parseFunctionDefinition: preInsideFunction
     reported |-> FALSE,   \* parseFunctionDefinition: the init-block error was reported
     cases |-> <<>>,       \* parseStatement: _switch.cases
     names |-> <<>>,       \* parseStatement: variableNames;
                           \* parseFunctionDefinition: the names of funDef.parameters
     elem |-> NoNode,      \* parseStatement: elementary; parseCall: _initialOp
     statements |-> <<>>,  \* parseBlock: block.statements (see Keywords)
     blocks |-> <<>>]      \* parseForLoop: forLoop.pre, forLoop.post

\* The parser's mutable state as one value, so that the productions are
\* operators from state to state.
Cur ==
    [tok |-> tok, stack |-> stack, depth |-> m_recursionDepth,
     inside |-> m_insideFunction, comp |-> m_currentForLoopComponent,
     errors |-> errors, status |-> status, ret |-> ret, nexts |-> 0,
     prevBuiltin |-> prevBuiltin, emitted |-> 0]

ApplyParser(m) ==
    /\ tok' = m.tok
    /\ stack' = m.stack
    /\ m_recursionDepth' = m.depth
    /\ m_insideFunction' = m.inside
    /\ m_currentForLoopComponent' = m.comp
    /\ errors' = m.errors
    /\ status' = m.status
    /\ ret' = m.ret
    /\ nexts' = m.nexts
    /\ prevBuiltin' = m.prevBuiltin
    /\ quiet' = IF m.nexts > 0 \/ m.status # "parsing" THEN 0 ELSE quiet + 1
    /\ emitted' = m.emitted

Top(m) == m.stack[Len(m.stack)]

\* An exception is on its way up: FatalError ("throwing") or the exception
\* of a failed yulAssert ("asserting").
Thrown(m) == m.status \in {"throwing", "asserting"}

\* yulAssert(condition, ...): throws when the condition is false.  The
\* exception is no FatalError, so parse() does not catch it.
yulAssert(m, condition) ==
    IF condition THEN m ELSE [m EXCEPT !.status = "asserting"]

\* Faulty variant of the catch clause: the fatal error is swallowed and the
\* block is handed out.
parse_catch_partial(errs) == "Block"

\* catch (FatalError const&) { yulAssert(!errors().empty(), ...); } return nullptr;
parse_catch(errs) == IF errs # <<>> THEN "nullptr" ELSE "AssertionFailed"

\* parse() is left; the scanner stays where the parser stopped.  After a
\* normal return `ret` is the Block handed to the caller.
Release(m) == [m EXCEPT !.stack = <<>>, !.status = "idle"]

\* FatalError unwinds the stack up to parse(): the RecursionGuard of every
\* active production is destroyed.  Nothing else is restored.
Unwind(m) ==
    Release([m EXCEPT !.depth = m.depth - (Len(m.stack) - 1), !.ret = NoNode])

\* Variant: the FatalError is not propagated; the production goes on.
Apply_resume(m) ==
    /\ ApplyParser([m EXCEPT !.status = "parsing"])
    /\ UNCHANGED <<result, periodInIdentifier>>
    /\ UNCHANGED <<flavour, parses, startInside, startComponent, startErrors,
                 tables>>

\* A step inside a parse() call that leaves the parser in state m.  A fatal
\* error raised by the step is caught by parse() in the same step; the
\* exception of a failed assertion leaves parse() uncaught, past the
\* ScopeGuard that resets the scanner mode.
Apply(m) ==
    /\ IF Thrown(m)
       THEN /\ ApplyParser(Unwind(m))
            /\ result' = IF m.status = "asserting" THEN "AssertionFailed"
                         ELSE parse_catch(m.errors)
            /\ periodInIdentifier' = FALSE
       ELSE /\ ApplyParser(m)
            /\ UNCHANGED <<result, periodInIdentifier>>
    /\ UNCHANGED <<flavour, parses, startInside, startComponent, startErrors,
                 tables>>

Goto(m, pc) == [m EXCEPT !.stack[Len(m.stack)].pc = pc]

\* -------------------------------------------------------- diagnostic sink
Error(type, msg) == [type |-> type, msg |-> msg]

\* Recoverable: recorded, parsing goes on.
syntaxError(m, msg) ==
    [m EXCEPT !.errors = Append(@, Error("SyntaxError", msg)), !.emitted = @ + 1]

\* Fatal: recorded, then FatalError is thrown and unwinds to parse().
fatalParserError(m, msg) ==
    [m EXCEPT !.errors = Append(@, Error("ParserError", msg)), !.emitted = @ + 1,
              !.status = "throwing"]

\* ----------------------------------------------------------------- scanner
\* The token stream is not fixed in advance: the current token is drawn when
\* the parser first reads it (currentToken(), currentLiteral()) and stays
\* until advance() moves on to the next one, which is Unread again.
Unread == Tok("Unread", "")

advance(m) ==
    [m EXCEPT !.tok = Unread, !.nexts = @ + 1,
              !.prevBuiltin = m.tok.type \in IdentifierClass /\ builtin(m.tok.lit)]

\* expectToken(_value, _advance)
expectToken(m, type, doAdvance) ==
    IF m.tok.type # type THEN fatalParserError(m, "Expected " \o type)
    ELSE IF doAdvance THEN advance(m)
    ELSE m

\* The tokens the scanner can deliver when the innermost production reads
\* the next one: any token the bounds of the model allow.
Scan(m) ==
    { t \in Tokens :
        /\ (Len(m.errors) - startErrors >= MaxErrors =>
               /\ t.type \notin {"Break", "Continue", "Function", "For", "Switch"}
               /\ t.lit # "leave")
        /\ (Len(Top(m).cases) >= MaxList => t.type # "Case")
        /\ ((Top(m).fn = "parseStatement" /\ Len(Top(m).names) + 1 >= MaxList
                /\ m.ret.kind # "Literal")
               => t.type # "Comma")
        /\ ((Top(m).fn = "parseFunctionDefinition" /\ Len(Top(m).names) >= MaxList)
               => t.type # "Comma") }

\* -------------------------------------------------------- recursion guard
\* RecursionGuard's constructor on entry to production fn: the frame of fn
\* becomes the innermost one.
Call(m, fn) ==
    LET m1 == [m EXCEPT !.depth = @ + 1, !.stack = Append(@, Frame(fn, "start"))]
    IN  IF m1.depth > MaxRecursionDepth
        THEN fatalParserError(m1, "Maximum recursion depth reached during parsing.")
        ELSE m1

\* Normal return of the innermost production with its node: RecursionGuard's
\* destructor runs.
Return(m, node) ==
    [m EXCEPT !.stack = SubSeq(@, 1, Len(@) - 1), !.depth = @ - 1, !.ret = node]

At(fn, pc) ==
    /\ status = "parsing"
    /\ stack # <<>>
    /\ stack[Len(stack)].fn = fn
    /\ stack[Len(stack)].pc = pc

\* What the current token can be, for a step that reads it.
Look == IF tok = Unread THEN Scan(Cur) ELSE {tok}

\* The parser's state with t as the current token.
See(t) == [Cur EXCEPT !.tok = t]

\* --------------------------------------------------------------- parseBlock
parseBlock_start(m) ==
    LET m1 == expectToken(m, "LBrace", TRUE)
    IN  IF Thrown(m1) THEN m1 ELSE Goto(m1, "loop")

\* while (currentToken() != Token::RBrace) ... parseStatement()
parseBlock_loop(m) ==
    IF m.tok.type # "RBrace"
    THEN Call(Goto(m, "stmt"), "parseStatement")
    ELSE Return(advance(m), [kind |-> "Block", end |-> "last",
                             statements |-> Top(m).statements])

\* Faulty variant: the statement returned is dropped.
parseBlock_append_drop(m) == Goto([m EXCEPT !.ret = NoNode], "loop")

\* block.statements.emplace_back(<the statement returned>)
parseBlock_append(m) ==
    Goto([m EXCEPT !.stack[Len(m.stack)].statements = @ \o Keywords(m.ret),
                   !.ret = NoNode],
         "loop")

ParseBlockStart ==
    /\ At("parseBlock", "start")
    /\ \E t \in Look : Apply(parseBlock_start(See(t)))

ParseBlockLoop ==
    /\ At("parseBlock", "loop")
    /\ \E t \in Look : Apply(parseBlock_loop(See(t)))

ParseBlockAppend ==
    /\ At("parseBlock", "stmt")
    /\ Apply(parseBlock_append(Cur))

\* ------------------------------------------------- checkBreakContinuePosition
checkBreakContinuePosition(m, which) ==
    CASE m.comp = "None" ->
            syntaxError(m, "Keyword \"" \o which \o "\" needs to be inside a for-loop body.")
      [] m.comp = "ForLoopPre" ->
            syntaxError(m, "Keyword \"" \o which \o "\" in for-loop init block is not allowed.")
      [] m.comp = "ForLoopPost" ->
            syntaxError(m, "Keyword \"" \o which \o "\" in for-loop post block is not allowed.")
      [] m.comp = "ForLoopBody" -> m

\* ----------------------------------------------------------- parseStatement
\* Call of a production that takes the elementary operation as its argument.
\* Variant: parseCall without its RecursionGuard.
CallWith_unguarded(m, fn, op) ==
    [m EXCEPT !.stack = Append(@, [Frame(fn, "start") EXCEPT !.elem = op])]

CallWith(m, fn, op) ==
    LET m1 == Call(m, fn)
    IN  IF Thrown(m1) THEN m1
        ELSE [m1 EXCEPT !.stack[Len(m1.stack)].elem = op]

\* The token kinds with a case label of their own in parseStatement's switch.
IsLeave(t) == t.type = "Identifier" /\ t.lit = "leave"

StatementKeywords ==
    {"Let", "Function", "LBrace", "If", "Switch", "For", "Break", "Continue"}

\* case Token::Let / Function / LBrace / For: return parseX();
parseStatement_Let(m) == Call(Goto(m, "ret"), "parseVariableDeclaration")

parseStatement_Function(m) == Call(Goto(m, "ret"), "parseFunctionDefinition")

parseStatement_LBrace(m) == Call(Goto(m, "ret"), "parseBlock")

parseStatement_For(m) == Call(Goto(m, "ret"), "parseForLoop")

\* The statement of the production called is returned as it is.
parseStatement_ret(m) == Return(m, m.ret)

\* case Token::If
parseStatement_If(m) == Call(Goto(advance(m), "ifCond"), "parseExpression")

parseStatement_ifCond(m) ==
    Call(Goto([m EXCEPT !.ret = NoNode], "ifBody"), "parseBlock")

\* _if.body = parseBlock(); location.end stays that of the keyword.
parseStatement_ifBody(m) ==
    Return(m, [kind |-> "If", end |-> "first", body |-> m.ret])

\* case Token::Switch
parseStatement_Switch(m) == Call(Goto(advance(m), "swExpr"), "parseExpression")

\* Faulty variant: the checks on what follows the default clause are missing.
SwitchEnd_noOrderCheck(m) ==
    IF Top(m).cases = <<>>
    THEN fatalParserError(m, "Switch statement without any cases.")
    ELSE Return(m, [kind |-> "Switch", cases |-> Top(m).cases,
                    end |-> Top(m).cases[Len(Top(m).cases)].end])

\* The checks after the case clauses, and the return of the Switch.
SwitchEnd(m) ==
    IF m.tok.type = "Default"
    THEN fatalParserError(m, "Only one default case allowed.")
    ELSE IF m.tok.type = "Case"
    THEN fatalParserError(m, "Case not allowed after default case.")
    ELSE IF Top(m).cases = <<>>
    THEN fatalParserError(m, "Switch statement without any cases.")
    ELSE Return(m, [kind |-> "Switch", cases |-> Top(m).cases,
                    end |-> Top(m).cases[Len(Top(m).cases)].end])

\* while (currentToken() == Token::Case) ...; if (currentToken() == Token::Default) ...
SwitchLoop(m) ==
    IF m.tok.type = "Case" THEN Call(Goto(m, "swCase"), "parseCase")
    ELSE IF m.tok.type = "Default" THEN Call(Goto(m, "swDefault"), "parseCase")
    ELSE SwitchEnd(m)

\* _switch.cases.emplace_back(<the case returned>)
AppendCase(m) ==
    [m EXCEPT !.stack[Len(m.stack)].cases = Append(@, m.ret), !.ret = NoNode]

parseStatement_swExpr(m) == SwitchLoop([m EXCEPT !.ret = NoNode])

parseStatement_swCase(m) == SwitchLoop(AppendCase(m))

\* Faulty variant: the clause loop goes on after the default clause.
parseStatement_swDefault_loop(m) == SwitchLoop(AppendCase(m))

parseStatement_swDefault(m) == SwitchEnd(AppendCase(m))

\* createWithLocation<Break / Continue / Leave>().  `misplaced` is history:
\* the position check of the statement reported the keyword.
Keyword(kind, misplaced) == [kind |-> kind, end |-> "first", misplaced |-> misplaced]

\* Variant: the break statement is built without consuming its keyword.
parseStatement_Break_noAdvance(m) ==
    Return(checkBreakContinuePosition(m, "break"),
           Keyword("Break", m.comp # "ForLoopBody"))

\* case Token::Break / Token::Continue
parseStatement_Break(m) ==
    Return(advance(checkBreakContinuePosition(m, "break")),
           Keyword("Break", m.comp # "ForLoopBody"))

parseStatement_Continue(m) ==
    Return(advance(checkBreakContinuePosition(m, "continue")),
           Keyword("Continue", m.comp # "ForLoopBody"))

\* case Token::Identifier with currentLiteral() == "leave"
LeaveCheck(m) ==
    IF ~m.inside
    THEN syntaxError(m, "Keyword \"leave\" can only be used inside a function.")
    ELSE m

\* Faulty variant: the keyword is not consumed.
parseStatement_Leave_noAdvance(m) ==
    Return(LeaveCheck(m), Keyword("Leave", ~m.inside))

parseStatement_Leave(m) ==
    Return(advance(LeaveCheck(m)), Keyword("Leave", ~m.inside))

\* Everything else: ElementaryOperation elementary(parseElementaryOperation());
parseStatement_Elementary(m) == Call(Goto(m, "elem"), "parseElementaryOperation")

\* Variant: the message does not depend on the token after the target.
AssignTarget_oneMessage(m) ==
    LET elementary == Top(m).elem IN
    IF elementary.kind # "Identifier"
    THEN fatalParserError(m,
            "Variable name must precede \":=\" in assignment.")
    ELSE IF builtin(elementary.name)
    THEN fatalParserError(m,
            "Cannot assign to builtin function \"" \o elementary.name \o "\".")
    ELSE LET m1 == [m EXCEPT !.stack[Len(m.stack)].names = Append(@, elementary.name)]
         IN  IF m1.tok.type # "Comma"
             THEN LET m2 == expectToken(m1, "AssemblyAssign", TRUE)
                  IN  IF Thrown(m2) THEN m2
                      ELSE Call(Goto(m2, "value"), "parseExpression")
             ELSE Call(Goto(expectToken(m1, "Comma", TRUE), "target"),
                       "parseElementaryOperation")

\* One round of the while (true) loop over the assignment targets, with the
\* target in the frame's elem; after the last target, := and the value.
AssignTarget(m) ==
    LET elementary == Top(m).elem IN
    IF elementary.kind # "Identifier"
    THEN fatalParserError(m,
            "Variable name must precede \""
            \o (IF m.tok.type = "Comma" THEN "," ELSE ":=") \o "\""
            \o (IF m.tok.type = "Comma" THEN " in multiple assignment." ELSE " in assignment."))
    ELSE IF builtin(elementary.name)
    THEN fatalParserError(m,
            "Cannot assign to builtin function \"" \o elementary.name \o "\".")
    ELSE LET m1 == [m EXCEPT !.stack[Len(m.stack)].names = Append(@, elementary.name)]
         IN  IF m1.tok.type # "Comma"
             THEN LET m2 == expectToken(m1, "AssemblyAssign", TRUE)
                  IN  IF Thrown(m2) THEN m2
                      ELSE Call(Goto(m2, "value"), "parseExpression")
             ELSE Call(Goto(expectToken(m1, "Comma", TRUE), "target"),
                       "parseElementaryOperation")

\* switch (currentToken()) after the elementary operation.  The default label
\* is fatal in every dialect, so the statements after the switch (a bare
\* identifier or literal as ExpressionStatement) are never reached.
parseStatement_elem(m) ==
    LET m1 == [m EXCEPT !.stack[Len(m.stack)].elem = m.ret, !.ret = NoNode] IN
    IF m1.tok.type = "LParen"
    THEN CallWith(Goto(m1, "call"), "parseCall", m.ret)
    ELSE IF m1.tok.type \in {"Comma", "AssemblyAssign"}
    THEN AssignTarget(m1)
    ELSE fatalParserError(m1, "Call or assignment expected.")

parseStatement_target(m) ==
    AssignTarget([m EXCEPT !.stack[Len(m.stack)].elem = m.ret, !.ret = NoNode])

parseStatement_value(m) ==
    Return(m, [kind |-> "Assignment", variableNames |-> Top(m).names,
               begin |-> Len(Top(m).names), end |-> EndOf(m.ret)])

parseStatement_call(m) ==
    Return(m, [kind |-> "ExpressionStatement", expression |-> m.ret,
               end |-> EndOf(m.ret)])

StmtLet ==
    /\ At("parseStatement", "start")
    /\ \E t \in Look : t.type = "Let" /\ Apply(parseStatement_Let(See(t)))

StmtFunction ==
    /\ At("parseStatement", "start")
    /\ \E t \in Look : t.type = "Function" /\ Apply(parseStatement_Function(See(t)))

StmtBlock ==
    /\ At("parseStatement", "start")
    /\ \E t \in Look : t.type = "LBrace" /\ Apply(parseStatement_LBrace(See(t)))

StmtFor ==
    /\ At("parseStatement", "start")
    /\ \E t \in Look : t.type = "For" /\ Apply(parseStatement_For(See(t)))

StmtReturn ==
    /\ At("parseStatement", "ret")
    /\ Apply(parseStatement_ret(Cur))

StmtIf ==
    /\ At("parseStatement", "start")
    /\ \E t \in Look : t.type = "If" /\ Apply(parseStatement_If(See(t)))

StmtIfCond ==
    /\ At("parseStatement", "ifCond")
    /\ Apply(parseStatement_ifCond(Cur))

StmtIfBody ==
    /\ At("parseStatement", "ifBody")
    /\ Apply(parseStatement_ifBody(Cur))

StmtSwitch ==
    /\ At("parseStatement", "start")
    /\ \E t \in Look : t.type = "Switch" /\ Apply(parseStatement_Switch(See(t)))

StmtSwitchExpr ==
    /\ At("parseStatement", "swExpr")
    /\ \E t \in Look : Apply(parseStatement_swExpr(See(t)))

StmtSwitchCase ==
    /\ At("parseStatement", "swCase")
    /\ \E t \in Look : Apply(parseStatement_swCase(See(t)))

StmtSwitchDefault ==
    /\ At("parseStatement", "swDefault")
    /\ \E t \in Look : Apply(parseStatement_swDefault(See(t)))

StmtBreak ==
    /\ At("parseStatement", "start")
    /\ \E t \in Look : t.type = "Break" /\ Apply(parseStatement_Break(See(t)))

StmtContinue ==
    /\ At("parseStatement", "start")
    /\ \E t \in Look : t.type = "Continue" /\ Apply(parseStatement_Continue(See(t)))

StmtLeave ==
    /\ At("parseStatement", "start")
    /\ \E t \in Look : IsLeave(t) /\ Apply(parseStatement_Leave(See(t)))

StmtElementary ==
    /\ At("parseStatement", "start")
    /\ \E t \in Look : t.type \notin StatementKeywords /\ ~IsLeave(t) /\ Apply(parseStatement_Elementary(See(t)))

StmtAfterElementary ==
    /\ At("parseStatement", "elem")
    /\ \E t \in Look : Apply(parseStatement_elem(See(t)))

StmtAssignTarget ==
    /\ At("parseStatement", "target")
    /\ \E t \in Look : Apply(parseStatement_target(See(t)))

StmtAssignValue ==
    /\ At("parseStatement", "value")
    /\ Apply(parseStatement_value(Cur))

StmtCall ==
    /\ At("parseStatement", "call")
    /\ Apply(parseStatement_call(Cur))

\* ---------------------------------------------------------------- parseCase
\* parseStatement calls parseCase on Case and Default only; any other token
\* fails the yulAssert of the last branch.
parseCase_start(m) ==
    IF m.tok.type = "Default"
    THEN Call(Goto(advance(m), "body"), "parseBlock")
    ELSE IF m.tok.type = "Case"
    THEN Call(Goto(advance(m), "literal"), "parseElementaryOperation")
    ELSE yulAssert(m, FALSE)

parseCase_literal(m) ==
    IF m.ret.kind # "Literal"
    THEN fatalParserError(m, "Literal expected.")
    ELSE Call(Goto([m EXCEPT !.stack[Len(m.stack)].elem = m.ret, !.ret = NoNode],
                   "body"),
              "parseBlock")

\* A default case is a Case without a value.
parseCase_body(m) ==
    Return(m, [kind |-> "Case", value |-> Top(m).elem.kind, body |-> m.ret,
               end |-> EndOf(m.ret)])

ParseCaseStart ==
    /\ At("parseCase", "start")
    /\ \E t \in Look : Apply(parseCase_start(See(t)))

ParseCaseLiteral ==
    /\ At("parseCase", "literal")
    /\ Apply(parseCase_literal(Cur))

ParseCaseBody ==
    /\ At("parseCase", "body")
    /\ Apply(parseCase_body(Cur))

\* ------------------------------------------------------------- parseForLoop
SetComponent(m, c) == [m EXCEPT !.comp = c]

parseForLoop_start(m) ==
    LET m1 == [m EXCEPT !.stack[Len(m.stack)].outer = m.comp]
        m2 == expectToken(m1, "For", TRUE)
    IN  IF Thrown(m2) THEN m2
        ELSE Call(Goto(SetComponent(m2, "ForLoopPre"), "pre"), "parseBlock")

\* The block returned is forLoop.pre.
parseForLoop_pre(m) ==
    Call(Goto(SetComponent([m EXCEPT !.stack[Len(m.stack)].blocks = Append(@, m.ret),
                                     !.ret = NoNode],
                           "None"),
              "cond"),
         "parseExpression")

parseForLoop_cond(m) ==
    Call(Goto(SetComponent([m EXCEPT !.ret = NoNode], "ForLoopPost"), "post"),
         "parseBlock")

\* The block returned is forLoop.post.
parseForLoop_post(m) ==
    Call(Goto(SetComponent([m EXCEPT !.stack[Len(m.stack)].blocks = Append(@, m.ret),
                                     !.ret = NoNode],
                           "ForLoopBody"),
              "body"),
         "parseBlock")

\* forLoop.body = parseBlock(); forLoop.location.end = forLoop.body.location.end;
ForLoop(m) ==
    [kind |-> "ForLoop", pre |-> Top(m).blocks[1], post |-> Top(m).blocks[2],
     body |-> m.ret, end |-> EndOf(m.ret)]

\* Faulty variant: the loop returns without restoring the outer component.
parseForLoop_body_noRestore(m) ==
    Return(m, ForLoop(m))

\* m_currentForLoopComponent = outerForLoopComponent; return forLoop;
parseForLoop_body(m) ==
    Return(SetComponent(m, Top(m).outer),
           ForLoop(m))

ParseForLoopStart ==
    /\ At("parseForLoop", "start")
    /\ \E t \in Look : Apply(parseForLoop_start(See(t)))

ParseForLoopPre ==
    /\ At("parseForLoop", "pre")
    /\ Apply(parseForLoop_pre(Cur))

ParseForLoopCond ==
    /\ At("parseForLoop", "cond")
    /\ Apply(parseForLoop_cond(Cur))

ParseForLoopPost ==
    /\ At("parseForLoop", "post")
    /\ Apply(parseForLoop_post(Cur))

ParseForLoopBody ==
    /\ At("parseForLoop", "body")
    /\ Apply(parseForLoop_body(Cur))

\* ---------------------------------------------------------- parseExpression
parseExpression_start(m) == Call(Goto(m, "op"), "parseElementaryOperation")

parseExpression_op(m) ==
    IF m.ret.kind = "FunctionCall" \/ m.tok.type = "LParen"
    THEN CallWith(Goto([m EXCEPT !.ret = NoNode], "ret"), "parseCall", m.ret)
    ELSE IF m.ret.kind = "Identifier"
    THEN Return(m, m.ret)
    ELSE LET m1 == yulAssert(m, m.ret.kind = "Literal")
         IN  IF Thrown(m1) THEN m1 ELSE Return(m1, m.ret)

parseExpression_ret(m) == Return(m, m.ret)

ParseExpressionStart ==
    /\ At("parseExpression", "start")
    /\ Apply(parseExpression_start(Cur))

ParseExpressionOp ==
    /\ At("parseExpression", "op")
    /\ \E t \in Look : Apply(parseExpression_op(See(t)))

ParseExpressionReturn ==
    /\ At("parseExpression", "ret")
    /\ Apply(parseExpression_ret(Cur))

\* ------------------------------------------------------ expectAsmIdentifier
\* The YulString that expectAsmIdentifier() returns.
YulString(name) == [kind |-> "YulString", name |-> name]

\* Variant: the name is not looked up in the dialect.
expectAsmIdentifier_anyName(m) ==
    IF m.tok.type \in IdentifierClass THEN advance(m)
    ELSE expectToken(m, "Identifier", TRUE)

\* The name is the lexeme of the current token; the state after the call.
expectAsmIdentifier(m) ==
    LET name == m.tok.lit
        m1 == IF m.tok.type \in IdentifierClass THEN m
              ELSE expectToken(m, "Identifier", TRUE)
    IN  IF Thrown(m1) THEN m1
        ELSE IF builtin(name)
        THEN fatalParserError(m1,
                "Cannot use builtin function name \"" \o name \o "\" as identifier name.")
        ELSE advance(m1)

\* ------------------------------------------------ parseElementaryOperation
LiteralKind(type) ==
    CASE type = "StringLiteral" -> "String"
      [] type = "Number" -> "Number"
      [] type \in {"TrueLiteral", "FalseLiteral"} -> "Boolean"

Identifier(name) == [kind |-> "Identifier", name |-> name, end |-> "first"]

\* Literal{location, kind, value, type}: the summary keeps the type-name.
Literal(type) == [kind |-> "Literal", type |-> type, end |-> "first"]

\* FunctionCall{location, functionName, arguments}
FunctionCall(functionName, shell) ==
    [kind |-> "FunctionCall", functionName |-> functionName, shell |-> shell,
     end |-> IF shell THEN "first" ELSE "last"]

parseElementaryOperation_start(m) ==
    IF m.tok.type \in IdentifierClass
    THEN LET literal == m.tok.lit IN
         IF builtin(literal)
         THEN Goto([advance(m) EXCEPT !.stack[Len(m.stack)].elem =
                                          FunctionCall(literal, TRUE)],
                   "lparen")
         ELSE Return(advance(m), Identifier(literal))
    ELSE IF m.tok.type \in LiteralClass
    THEN IF m.tok.type = "Number" /\ ~isValidNumberLiteral(m.tok.lit)
         THEN fatalParserError(m, "Invalid number literal.")
         ELSE LET kind == LiteralKind(m.tok.type)
                  literal == Literal("")
                  m1 == advance(m)
              IN  IF flavour = "Yul"
                  THEN Goto([m1 EXCEPT !.stack[Len(m.stack)].elem = literal], "colon")
                  ELSE IF kind = "Boolean"
                  THEN fatalParserError(m1, "True and false are not valid literals.")
                  ELSE Return(m1, literal)
    ELSE fatalParserError(m,
            IF flavour = "Yul" THEN "Literal or identifier expected."
            ELSE "Literal, identifier or instruction expected.")

\* expectToken(Token::LParen, false); return FunctionCall{...};
parseElementaryOperation_lparen(m) ==
    LET m1 == expectToken(m, "LParen", FALSE)
    IN  IF Thrown(m1) THEN m1 ELSE Return(m1, Top(m).elem)

\* expectToken(Token::Colon); literal.location.end = endPosition();
parseElementaryOperation_colon(m) ==
    LET m1 == expectToken(m, "Colon", TRUE)
    IN  IF Thrown(m1) THEN m1
        ELSE Goto([m1 EXCEPT !.stack[Len(m.stack)].elem.end = "last"], "type")

\* literal.type = expectAsmIdentifier();
parseElementaryOperation_type(m) ==
    LET m1 == expectAsmIdentifier(m)
    IN  IF Thrown(m1) THEN m1
        ELSE Return(m1, [Top(m).elem EXCEPT !.type = m.tok.lit])

ParseElementaryOperationStart ==
    /\ At("parseElementaryOperation", "start")
    /\ \E t \in Look : Apply(parseElementaryOperation_start(See(t)))

ParseElementaryOperationLParen ==
    /\ At("parseElementaryOperation", "lparen")
    /\ \E t \in Look : Apply(parseElementaryOperation_lparen(See(t)))

ParseElementaryOperationColon ==
    /\ At("parseElementaryOperation", "colon")
    /\ \E t \in Look : Apply(parseElementaryOperation_colon(See(t)))

ParseElementaryOperationType ==
    /\ At("parseElementaryOperation", "type")
    /\ \E t \in Look : Apply(parseElementaryOperation_type(See(t)))

\* ----------------------------------------------------------- parseTypedName
TypedName(name, type) ==
    [kind |-> "TypedName", name |-> name, type |-> type, end |-> "first"]

parseTypedName_start(m) ==
    LET m1 == expectAsmIdentifier(m)
    IN  IF Thrown(m1) THEN m1
        ELSE IF flavour = "Yul"
        THEN Goto([m1 EXCEPT !.stack[Len(m.stack)].elem = TypedName(m.tok.lit, "")],
                  "colon")
        ELSE Return(m1, TypedName(m.tok.lit, ""))

\* expectToken(Token::Colon); typedName.location.end = endPosition();
parseTypedName_colon(m) ==
    LET m1 == expectToken(m, "Colon", TRUE)
    IN  IF Thrown(m1) THEN m1
        ELSE Goto([m1 EXCEPT !.stack[Len(m.stack)].elem.end = "last"], "type")

\* Variant: the type-name is parsed but not stored in the node.
parseTypedName_type_dropped(m) ==
    LET m1 == expectAsmIdentifier(m)
    IN  IF Thrown(m1) THEN m1
        ELSE Return(m1, Top(m).elem)

parseTypedName_type(m) ==
    LET m1 == expectAsmIdentifier(m)
    IN  IF Thrown(m1) THEN m1
        ELSE Return(m1, [Top(m).elem EXCEPT !.type = m.tok.lit])

ParseTypedNameStart ==
    /\ At("parseTypedName", "start")
    /\ \E t \in Look : Apply(parseTypedName_start(See(t)))

ParseTypedNameColon ==
    /\ At("parseTypedName", "colon")
    /\ \E t \in Look : Apply(parseTypedName_colon(See(t)))

ParseTypedNameType ==
    /\ At("parseTypedName", "type")
    /\ \E t \in Look : Apply(parseTypedName_type(See(t)))

\* ------------------------------------------------- parseVariableDeclaration
parseVariableDeclaration_start(m) ==
    LET m1 == expectToken(m, "Let", TRUE)
    IN  IF Thrown(m1) THEN m1
        ELSE Call(Goto(m1, "var"), "parseTypedName")

\* varDecl.variables.emplace_back(<the typed name returned>), then the rest of
\* the loop and what follows it up to the next call.
parseVariableDeclaration_var(m) ==
    LET m1 == [m EXCEPT !.ret = NoNode] IN
    IF m1.tok.type = "Comma"
    THEN Call(expectToken(m1, "Comma", TRUE), "parseTypedName")
    ELSE IF m1.tok.type = "AssemblyAssign"
    THEN Call(Goto(expectToken(m1, "AssemblyAssign", TRUE), "value"),
              "parseExpression")
    ELSE Return(m1, [kind |-> "VariableDeclaration", hasValue |-> FALSE,
                     end |-> EndOf(m.ret)])

parseVariableDeclaration_value(m) ==
    Return(m, [kind |-> "VariableDeclaration", hasValue |-> TRUE,
               end |-> EndOf(m.ret)])

ParseVariableDeclarationStart ==
    /\ At("parseVariableDeclaration", "start")
    /\ \E t \in Look : Apply(parseVariableDeclaration_start(See(t)))

ParseVariableDeclarationVar ==
    /\ At("parseVariableDeclaration", "var")
    /\ \E t \in Look : Apply(parseVariableDeclaration_var(See(t)))

ParseVariableDeclarationValue ==
    /\ At("parseVariableDeclaration", "value")
    /\ Apply(parseVariableDeclaration_value(Cur))

\* ------------------------------------------------- parseFunctionDefinition
\* Faulty variant: the definition is refused in every part of a for-loop.
FunctionPositionCheck_anyLoop(m) ==
    IF m.comp # "None"
    THEN [syntaxError(m, "Functions cannot be defined inside a for-loop init block.")
            EXCEPT !.stack[Len(m.stack)].reported = TRUE]
    ELSE m

\* if (m_currentForLoopComponent == ForLoopPre) syntaxError(...)
FunctionPositionCheck(m) ==
    IF m.comp = "ForLoopPre"
    THEN [syntaxError(m, "Functions cannot be defined inside a for-loop init block.")
            EXCEPT !.stack[Len(m.stack)].reported = TRUE]
    ELSE m

parseFunctionDefinition_start(m) ==
    LET m1 == FunctionPositionCheck(m)
        m2 == [m1 EXCEPT !.stack[Len(m.stack)].outer = m.comp, !.comp = "None"]
        m3 == expectToken(m2, "Function", TRUE)
    IN  IF Thrown(m3) THEN m3 ELSE Goto(m3, "name")

\* funDef.name = expectAsmIdentifier();
parseFunctionDefinition_name(m) ==
    LET m1 == expectAsmIdentifier(m)
    IN  IF Thrown(m1) THEN m1
        ELSE Goto([m1 EXCEPT !.ret = YulString(m.tok.lit)], "lparen")

parseFunctionDefinition_lparen(m) ==
    LET m1 == expectToken([m EXCEPT !.ret = NoNode], "LParen", TRUE)
    IN  IF Thrown(m1) THEN m1 ELSE Goto(m1, "params")

\* while (currentToken() != Token::RParen) ... ; expectToken(Token::RParen);
parseFunctionDefinition_params(m) ==
    IF m.tok.type # "RParen"
    THEN Call(Goto(m, "param"), "parseTypedName")
    ELSE Goto(expectToken(m, "RParen", TRUE), "arrow")

\* funDef.parameters.emplace_back(<the typed name returned>); then break on
\* `)` or expect `,` and go round the loop.
parseFunctionDefinition_param(m) ==
    LET m1 == [m EXCEPT !.ret = NoNode,
                        !.stack[Len(m.stack)].names = Append(@, m.ret.name)] IN
    IF m1.tok.type = "RParen"
    THEN Goto(expectToken(m1, "RParen", TRUE), "arrow")
    ELSE LET m2 == expectToken(m1, "Comma", TRUE)
         IN  IF Thrown(m2) THEN m2 ELSE Goto(m2, "params")

\* bool preInsideFunction = m_insideFunction; m_insideFunction = true;
\* funDef.body = parseBlock();
FunctionBody(m) ==
    Call(Goto([m EXCEPT !.stack[Len(m.stack)].pre = m.inside, !.inside = TRUE],
              "body"),
         "parseBlock")

parseFunctionDefinition_arrow(m) ==
    IF m.tok.type = "Sub"
    THEN Goto(expectToken(m, "Sub", TRUE), "gt")
    ELSE FunctionBody(m)

parseFunctionDefinition_gt(m) ==
    LET m1 == expectToken(m, "GreaterThan", TRUE)
    IN  IF Thrown(m1) THEN m1
        ELSE Call(Goto(m1, "return"), "parseTypedName")

\* funDef.returnVariables.emplace_back(<the typed name returned>); then break
\* on `{` or expect `,` and parse the next one.
parseFunctionDefinition_return(m) ==
    LET m1 == [m EXCEPT !.ret = NoNode] IN
    IF m1.tok.type = "LBrace"
    THEN FunctionBody(m1)
    ELSE LET m2 == expectToken(m1, "Comma", TRUE)
         IN  IF Thrown(m2) THEN m2 ELSE Call(m2, "parseTypedName")

\* Faulty variant: the definition returns without restoring m_insideFunction.
parseFunctionDefinition_body_keepInside(m) ==
    Return([m EXCEPT !.comp = Top(m).outer],
           [kind |-> "FunctionDefinition", body |-> m.ret,
            reported |-> Top(m).reported, end |-> EndOf(m.ret)])

\* m_insideFunction = preInsideFunction; ...
\* m_currentForLoopComponent = outerForLoopComponent; return funDef;
parseFunctionDefinition_body(m) ==
    Return([m EXCEPT !.inside = Top(m).pre, !.comp = Top(m).outer],
           [kind |-> "FunctionDefinition", body |-> m.ret,
            reported |-> Top(m).reported, end |-> EndOf(m.ret)])

ParseFunctionDefinitionStart ==
    /\ At("parseFunctionDefinition", "start")
    /\ \E t \in Look : Apply(parseFunctionDefinition_start(See(t)))

ParseFunctionDefinitionName ==
    /\ At("parseFunctionDefinition", "name")
    /\ \E t \in Look : Apply(parseFunctionDefinition_name(See(t)))

ParseFunctionDefinitionLParen ==
    /\ At("parseFunctionDefinition", "lparen")
    /\ \E t \in Look : Apply(parseFunctionDefinition_lparen(See(t)))

ParseFunctionDefinitionParams ==
    /\ At("parseFunctionDefinition", "params")
    /\ \E t \in Look : Apply(parseFunctionDefinition_params(See(t)))

ParseFunctionDefinitionParam ==
    /\ At("parseFunctionDefinition", "param")
    /\ \E t \in Look : Apply(parseFunctionDefinition_param(See(t)))

ParseFunctionDefinitionArrow ==
    /\ At("parseFunctionDefinition", "arrow")
    /\ \E t \in Look : Apply(parseFunctionDefinition_arrow(See(t)))

ParseFunctionDefinitionGt ==
    /\ At("parseFunctionDefinition", "gt")
    /\ \E t \in Look : Apply(parseFunctionDefinition_gt(See(t)))

ParseFunctionDefinitionReturn ==
    /\ At("parseFunctionDefinition", "return")
    /\ \E t \in Look : Apply(parseFunctionDefinition_return(See(t)))

ParseFunctionDefinitionBody ==
    /\ At("parseFunctionDefinition", "body")
    /\ Apply(parseFunctionDefinition_body(Cur))

\* ---------------------------------------------------------------- parseCall
CalleeName(op) == IF op.kind = "Identifier" THEN op.name ELSE op.functionName

parseCall_start(m) ==
    IF Top(m).elem.kind \notin {"Identifier", "FunctionCall"}
    THEN fatalParserError(m,
            IF flavour = "Yul" THEN "Function name expected."
            ELSE "Assembly instruction or function name required in front of \"(\")")
    ELSE LET m1 == expectToken(m, "LParen", TRUE)
         IN  IF Thrown(m1) THEN m1 ELSE Goto(m1, "args")

\* if (currentToken() != Token::RParen) ret.arguments.emplace_back(parseExpression());
parseCall_args(m) ==
    IF m.tok.type # "RParen"
    THEN Call(Goto(m, "arg"), "parseExpression")
    ELSE Return(expectToken(m, "RParen", TRUE),
                FunctionCall(CalleeName(Top(m).elem), FALSE))

\* while (currentToken() != Token::RParen) { expectToken(Token::Comma); ... }
parseCall_arg(m) ==
    LET m1 == [m EXCEPT !.ret = NoNode] IN
    IF m1.tok.type # "RParen"
    THEN LET m2 == expectToken(m1, "Comma", TRUE)
         IN  IF Thrown(m2) THEN m2 ELSE Call(m2, "parseExpression")
    ELSE Return(expectToken(m1, "RParen", TRUE),
                FunctionCall(CalleeName(Top(m).elem), FALSE))

ParseCallStart ==
    /\ At("parseCall", "start")
    /\ \E t \in Look : Apply(parseCall_start(See(t)))

ParseCallArgs ==
    /\ At("parseCall", "args")
    /\ \E t \in Look : Apply(parseCall_args(See(t)))

ParseCallArg ==
    /\ At("parseCall", "arg")
    /\ \E t \in Look : Apply(parseCall_arg(See(t)))

\* -------------------------------------------------------------------- parse
\* m_recursionDepth = 0; supportPeriodInIdentifier(true); m_scanner = _scanner;
\* and the call of parseBlock().
parse_start(m) ==
    Call([m EXCEPT !.depth = 0, !.tok = Unread, !.status = "parsing",
                   !.ret = NoNode, !.prevBuiltin = FALSE, !.stack = <<Frame("parse", "block")>>],
         "parseBlock")

\* if (!_reuseScanner) expectToken(Token::EOS);
parse_block(m, reuse) ==
    IF ~reuse THEN expectToken(m, "EOS", TRUE) ELSE m

\* parse(_scanner, _reuseScanner): m_recursionDepth is reset, the scanner is
\* replaced; m_errorReporter keeps what earlier calls reported.
ParseStart ==
    /\ status = "idle" /\ parses < MaxParses
    /\ parses' = parses + 1
    /\ ApplyParser(parse_start(Cur))
    /\ result' = "none"
    /\ periodInIdentifier' = TRUE
    /\ startInside' = m_insideFunction
    /\ startComponent' = m_currentForLoopComponent
    /\ startErrors' = Len(errors)
    /\ UNCHANGED <<flavour, tables>>

\* parseBlock() has returned: the rest of the try block.  _reuseScanner is
\* read nowhere else, so the argument is drawn here.
ParseFinish ==
    /\ At("parse", "block")
    /\ \E reuse \in BOOLEAN :
          \E t \in (IF reuse THEN {tok} ELSE Look) :
             LET m1 == parse_block(See(t), reuse) IN
             IF Thrown(m1)
             THEN /\ ApplyParser(Unwind(m1))
                  /\ result' = parse_catch(m1.errors)
             ELSE /\ ApplyParser(Release(m1))
                  /\ result' = "Block"
    /\ periodInIdentifier' = FALSE
    /\ UNCHANGED <<flavour, parses, startInside, startComponent, startErrors,
                 tables>>

\* ------------------------------------------------------------ specification
Init ==
    /\ flavour \in {"Yul", "Loose"}
    /\ tok = Unread
    /\ stack = <<>>
    /\ m_recursionDepth = 0
    /\ m_insideFunction = FALSE
    /\ m_currentForLoopComponent = "None"
    /\ errors = <<>>
    /\ status = "idle"
    /\ ret = NoNode
    /\ nexts = 0
    /\ prevBuiltin = FALSE
    /\ quiet = 0
    /\ emitted = 0
    /\ result = "none"
    /\ parses = 0
    /\ periodInIdentifier = FALSE
    /\ startInside = FALSE
    /\ startComponent = "None"
    /\ startErrors = 0
    /\ s_instructions = Map({})
    /\ s_instructionNames = Map({})
    /\ threads = [t \in Threads |->
                    [pc |-> "idle", i |-> 0, caller |-> "user", key |-> "-"]]
    /\ visible = {}

Next ==
    \/ ParseStart \/ ParseFinish
    \/ ParseBlockStart \/ ParseBlockLoop \/ ParseBlockAppend
    \/ StmtLet \/ StmtFunction \/ StmtBlock \/ StmtFor \/ StmtReturn
    \/ StmtIf \/ StmtIfCond \/ StmtIfBody
    \/ StmtSwitch \/ StmtSwitchExpr \/ StmtSwitchCase \/ StmtSwitchDefault
    \/ StmtBreak \/ StmtContinue \/ StmtLeave
    \/ StmtElementary \/ StmtAfterElementary \/ StmtAssignTarget
    \/ StmtAssignValue \/ StmtCall
    \/ ParseCaseStart \/ ParseCaseLiteral \/ ParseCaseBody
    \/ ParseForLoopStart \/ ParseForLoopPre \/ ParseForLoopCond
    \/ ParseForLoopPost \/ ParseForLoopBody
    \/ ParseExpressionStart \/ ParseExpressionOp \/ ParseExpressionReturn
    \/ ParseElementaryOperationStart \/ ParseElementaryOperationLParen
    \/ ParseElementaryOperationColon
    \/ ParseElementaryOperationType
    \/ ParseTypedNameStart \/ ParseTypedNameColon \/ ParseTypedNameType
    \/ ParseVariableDeclarationStart \/ ParseVariableDeclarationVar
    \/ ParseVariableDeclarationValue
    \/ ParseFunctionDefinitionStart \/ ParseFunctionDefinitionName
    \/ ParseFunctionDefinitionLParen \/ ParseFunctionDefinitionParams
    \/ ParseFunctionDefinitionParam \/ ParseFunctionDefinitionArrow
    \/ ParseFunctionDefinitionGt \/ ParseFunctionDefinitionReturn
    \/ ParseFunctionDefinitionBody
    \/ ParseCallStart \/ ParseCallArgs \/ ParseCallArg

Spec == Init /\ [][Next]_vars

\* ------------------------------------------------ instruction-name tables
\* instructions() and instructionNames() are static member functions; any
\* thread of the process may call them, and nothing in them synchronises.
\* evmasm::c_instructions, in the order in which a std::map is iterated.
c_instructions ==
    << [first |-> "ADD", second |-> "ADD"],
       [first |-> "JUMPDEST", second |-> "JUMPDEST"],
       [first |-> "PUSH1", second |-> "PUSH1"],
       [first |-> "SELFDESTRUCT", second |-> "SELFDESTRUCT"] >>

isPushInstruction(instruction) == instruction = "PUSH1"

\* transform(name.begin(), name.end(), name.begin(), tolower)
tolower(name) ==
    CASE name = "ADD" -> "add"
      [] name = "JUMPDEST" -> "jumpdest"
      [] name = "PUSH1" -> "push1"
      [] name = "SELFDESTRUCT" -> "selfdestruct"

\* The mapped value of a node that operator[] has inserted and not yet
\* assigned: value-initialised, which is Instruction(0), the opcode STOP, in
\* s_instructions and the empty string in s_instructionNames.
ValueInitialised(table) == IF table = "s_instructions" THEN "STOP" ELSE ""

Table(table) ==
    IF table = "s_instructions" THEN s_instructions ELSE s_instructionNames

\* The pairs of a map after the mapped value of key has become value.
Put(entries, key, value) == {p \in entries : p[1] # key} \cup {<<key, value>>}

\* map[key] = value, first half: operator[] finds the node of key or inserts
\* one with a value-initialised mapped value.
Link(table, key) ==
    LET map == Table(table) IN
    IF \E p \in map.entries : p[1] = key THEN map
    ELSE [map EXCEPT !.entries = @ \cup {<<key, ValueInitialised(table)>>}]

\* map[key] = value, second half: the assignment to the mapped value.
Assign(table, key, value) ==
    [Table(table) EXCEPT !.entries = Put(@, key, value)]

\* The threads inside the block that fills a table: between two of their
\* steps a write to the table may be under way.
Writers(table) ==
    {u \in Threads :
        threads[u].pc \in (IF table = "s_instructions" THEN {"i_fill", "i_assign"}
                           ELSE {"n_fill", "n_assign", "n_fix1", "n_set1",
                                 "n_fix2", "n_set2"})}

\* The threads whose next statement reads a table.
Readers(table) ==
    {u \in Threads :
        threads[u].pc \in (IF table = "s_instructions" THEN {"i_check", "n_fill"}
                           ELSE {"n_check"})}

\* The access of thread t to the table is a data race: nothing orders it
\* with the access of another thread to the same std::map, and one of the
\* two writes.
Racing(t, table, writes) ==
    \/ Writers(table) \ {t} # {}
    \/ writes /\ Readers(table) \ {t} # {}

\* What a write of thread t leaves in the table, where `sound` is what the
\* write does when nothing disturbs it.  A racing write is undefined
\* behaviour: it may come out as the undisturbed write or leave the map in
\* any state.
Store(t, table, sound) ==
    IF Table(table).indeterminate THEN {Indeterminate}
    ELSE IF Racing(t, table, TRUE) THEN {sound, Indeterminate}
    ELSE {sound}

\* What map.empty() answers.  A read of a map that another thread writes, or
\* of an indeterminate map: either answer.
Empty(t, table) ==
    IF Table(table).indeterminate \/ Racing(t, table, FALSE) THEN BOOLEAN
    ELSE {Table(table).entries = {}}

\* Thread t goes on to pc.
Jump(t, pc, i, caller, key) ==
    threads' = [threads EXCEPT ![t] =
                   [pc |-> pc, i |-> i, caller |-> caller, key |-> key]]

parser == <<flavour, tok, stack, m_recursionDepth, m_insideFunction,
            m_currentForLoopComponent, errors, status, ret, nexts, prevBuiltin,
            quiet, emitted, result, parses, periodInIdentifier, startInside, startComponent,
            startErrors>>

\* A thread calls instructions() or instructionNames().
Enter(t) ==
    /\ threads[t].pc = "idle"
    /\ \E pc \in {"i_check", "n_check"} : Jump(t, pc, 0, "user", "-")
    /\ UNCHANGED <<s_instructions, s_instructionNames, visible, parser>>

\* if (s_instructions.empty())
instructions_check(t) ==
    /\ threads[t].pc = "i_check"
    /\ \E empty \in Empty(t, "s_instructions") :
          IF empty THEN Jump(t, "i_fill", 1, threads[t].caller, "-")
          ELSE Jump(t, "i_ret", 0, threads[t].caller, "-")
    /\ UNCHANGED <<s_instructions, s_instructionNames, visible, parser>>

\* One round of for (auto const& instruction: evmasm::c_instructions), up to
\* the node that s_instructions[name] finds or inserts.
instructions_fill(t) ==
    /\ threads[t].pc = "i_fill"
    /\ LET i == threads[t].i IN
       IF i > Len(c_instructions)
       THEN /\ Jump(t, "i_ret", 0, threads[t].caller, "-")
            /\ UNCHANGED s_instructions
       ELSE LET instruction == c_instructions[i] IN
            IF instruction.second = "JUMPDEST" \/ isPushInstruction(instruction.second)
            THEN /\ Jump(t, "i_fill", i + 1, threads[t].caller, "-")
                 /\ UNCHANGED s_instructions
            ELSE /\ Jump(t, "i_assign", i, threads[t].caller, "-")
                 /\ s_instructions' \in
                       Store(t, "s_instructions",
                             Link("s_instructions", tolower(instruction.first)))
    /\ UNCHANGED <<s_instructionNames, visible, parser>>

\* ... = instruction.second; the end of the round.
instructions_assign(t) ==
    /\ threads[t].pc = "i_assign"
    /\ LET instruction == c_instructions[threads[t].i] IN
          s_instructions' \in
             Store(t, "s_instructions",
                   Assign("s_instructions", tolower(instruction.first),
                          instruction.second))
    /\ Jump(t, "i_fill", threads[t].i + 1, threads[t].caller, "-")
    /\ UNCHANGED <<s_instructionNames, visible, parser>>

\* return s_instructions; to the user or to the loop of instructionNames().
instructions_return(t) ==
    /\ threads[t].pc = "i_ret"
    /\ visible' = visible \cup {"s_instructions"}
    /\ IF threads[t].caller = "user" THEN Jump(t, "idle", 0, "user", "-")
       ELSE Jump(t, "n_fill", 1, "user", "-")
    /\ UNCHANGED <<s_instructions, s_instructionNames, parser>>

\* if (s_instructionNames.empty()) ... for (auto const& instr: instructions())
instructionNames_check(t) ==
    /\ threads[t].pc = "n_check"
    /\ \E empty \in Empty(t, "s_instructionNames") :
          IF empty THEN Jump(t, "i_check", 0, "instructionNames", "-")
          ELSE Jump(t, "n_ret", 0, "user", "-")
    /\ UNCHANGED <<s_instructions, s_instructionNames, visible, parser>>

\* One round of the loop over s_instructions, up to the node that
\* s_instructionNames[instr.second] finds or inserts.  The i-th name is
\* visited if the walk finds its node, and instr.second is what the node
\* holds at that moment: Instruction(0) between the two halves of line 78.
\* A walk of a map that another thread writes, or of an indeterminate map,
\* is undefined behaviour: it may also miss the node or read anything.
instructionNames_fill(t) ==
    /\ threads[t].pc = "n_fill"
    /\ LET i == threads[t].i
           unreliable == \/ s_instructions.indeterminate
                         \/ Racing(t, "s_instructions", FALSE)
       IN
       IF i > Len(c_instructions)
       THEN /\ Jump(t, "n_fix1", 0, "user", "-")
            /\ UNCHANGED s_instructionNames
       ELSE \/ \E instr \in s_instructions.entries :
                  /\ instr[1] = tolower(c_instructions[i].first)
                  /\ Jump(t, "n_assign", i, "user", instr[2])
                  /\ s_instructionNames' \in
                        Store(t, "s_instructionNames",
                              Link("s_instructionNames", instr[2]))
            \/ /\ \/ /\ ~s_instructions.indeterminate
                     /\ \A instr \in s_instructions.entries :
                           instr[1] # tolower(c_instructions[i].first)
                  \/ unreliable
               /\ Jump(t, "n_fill", i + 1, "user", "-")
               /\ UNCHANGED s_instructionNames
            \/ /\ unreliable
               /\ Jump(t, "n_fill", i + 1, "user", "-")
               /\ s_instructionNames' = Indeterminate
    /\ UNCHANGED <<s_instructions, visible, parser>>

\* ... = instr.first; the end of the round.
instructionNames_assign(t) ==
    /\ threads[t].pc = "n_assign"
    /\ s_instructionNames' \in
          Store(t, "s_instructionNames",
                Assign("s_instructionNames", threads[t].key,
                       tolower(c_instructions[threads[t].i].first)))
    /\ Jump(t, "n_fill", threads[t].i + 1, "user", "-")
    /\ UNCHANGED <<s_instructions, visible, parser>>

\* s_instructionNames[SELFDESTRUCT] = "selfdestruct"; then [KECCAK256] =
\* "keccak256"; each in its two halves.
instructionNames_fix(t) ==
    /\ \/ /\ threads[t].pc = "n_fix1"
          /\ Jump(t, "n_set1", 0, "user", "-")
          /\ s_instructionNames' \in
                Store(t, "s_instructionNames",
                      Link("s_instructionNames", "SELFDESTRUCT"))
       \/ /\ threads[t].pc = "n_set1"
          /\ Jump(t, "n_fix2", 0, "user", "-")
          /\ s_instructionNames' \in
                Store(t, "s_instructionNames",
                      Assign("s_instructionNames", "SELFDESTRUCT", "selfdestruct"))
       \/ /\ threads[t].pc = "n_fix2"
          /\ Jump(t, "n_set2", 0, "user", "-")
          /\ s_instructionNames' \in
                Store(t, "s_instructionNames",
                      Link("s_instructionNames", "KECCAK256"))
       \/ /\ threads[t].pc = "n_set2"
          /\ Jump(t, "n_ret", 0, "user", "-")
          /\ s_instructionNames' \in
                Store(t, "s_instructionNames",
                      Assign("s_instructionNames", "KECCAK256", "keccak256"))
    /\ UNCHANGED <<s_instructions, visible, parser>>

\* return s_instructionNames;
instructionNames_return(t) ==
    /\ threads[t].pc = "n_ret"
    /\ visible' = visible \cup {"s_instructionNames"}
    /\ Jump(t, "idle", 0, "user", "-")
    /\ UNCHANGED <<s_instructions, s_instructionNames, parser>>

\* The tables that the next statement of thread t reads or writes; between
\* calls, those that a call has returned to the thread's code.
Touches(t) ==
    CASE threads[t].pc \in {"i_check", "i_fill", "i_assign"} -> {"s_instructions"}
      [] threads[t].pc = "n_fill" -> {"s_instructions", "s_instructionNames"}
      [] threads[t].pc \in {"n_check", "n_assign", "n_fix1", "n_set1", "n_fix2",
                            "n_set2"}
            -> {"s_instructionNames"}
      [] threads[t].pc = "idle" -> visible
      [] OTHER -> {}

\* An access under undefined behaviour faults (SIGSEGV, or SIGABRT from the
\* allocator): the process is gone, and with it every thread and the tables.
Crash(t) ==
    /\ \E table \in Touches(t) :
          \/ Table(table).indeterminate
          \/ Racing(t, table, t \in Writers(table))
    /\ threads' = [u \in Threads |->
                      [pc |-> "crashed", i |-> 0, caller |-> "user", key |-> "-"]]
    /\ s_instructions' = Map({})
    /\ s_instructionNames' = Map({})
    /\ visible' = {}
    /\ UNCHANGED parser

\* An access walks an indeterminate table and never ends.
Hang(t) ==
    /\ \E table \in Touches(t) : Table(table).indeterminate
    /\ Jump(t, "hung", 0, "user", "-")
    /\ UNCHANGED <<s_instructions, s_instructionNames, visible, parser>>

\* The calls of the static functions, by any thread, in any interleaving.
NextInstr ==
    \E t \in Threads :
       \/ Enter(t) \/ Crash(t) \/ Hang(t)
       \/ instructions_check(t) \/ instructions_fill(t) \/ instructions_assign(t)
       \/ instructions_return(t)
       \/ instructionNames_check(t) \/ instructionNames_fill(t)
       \/ instructionNames_assign(t) \/ instructionNames_fix(t)
       \/ instructionNames_return(t)

SpecInstr == Init /\ [][NextInstr]_vars

\* ------------------------------------------------------- lexical context
\* The context a statement stands in, read off the active productions alone
\* (never from m_currentForLoopComponent or m_insideFunction).  A for-loop
\* past its `for` token contributes the part it is parsing, a function
\* definition past its `function` token contributes None; the innermost one
\* decides.
Last(s) == s[Len(s)]

Enclosing(s) ==
    { i \in 1..Len(s) :
        /\ s[i].fn \in {"parseForLoop", "parseFunctionDefinition"}
        /\ s[i].pc # "start" }

Innermost(s) == CHOOSE i \in Enclosing(s) : \A j \in Enclosing(s) : j <= i

LexComponent(s) ==
    IF Enclosing(s) = {} THEN "None"
    ELSE LET f == s[Innermost(s)] IN
         IF f.fn = "parseFunctionDefinition" THEN "None"
         ELSE CASE f.pc = "pre"  -> "ForLoopPre"
                [] f.pc = "cond" -> "None"
                [] f.pc = "post" -> "ForLoopPost"
                [] f.pc = "body" -> "ForLoopBody"

LexInsideFunction(s) ==
    \E i \in 1..Len(s) : s[i].fn = "parseFunctionDefinition" /\ s[i].pc = "body"

\* parse() was called on a parser as its constructor leaves it.
FreshStart == startInside = FALSE /\ startComponent = "None"

Fatal(e) == e.type = "ParserError"

Recoverable(e) == e.type = "SyntaxError"

\* The diagnostics that the running call, or the last one when none runs,
\* has added to the sink; what earlier calls reported lies before them.
CallErrors == SubSeq(errors, startErrors + 1, Len(errors))

\* The step ended the call with the fatal diagnostic msg added to the sink.
EndsFatal(msg) ==
    /\ status' = "idle"
    /\ result' = "nullptr"
    /\ errors' = Append(errors, Error("ParserError", msg))

\* ------------------------------------------------------------------ claims
\* C1: parse returns nullptr if and only if a fatal diagnostic was emitted
\* during the call; with nullptr the sink is not empty; with a Block the sink
\* holds recoverable errors at most; and while the call runs no fatal
\* diagnostic has been emitted.
C1_NullptrIffFatal ==
    /\ startErrors <= Len(errors)
    /\ status = "parsing" =>
          \A i \in DOMAIN CallErrors : Recoverable(CallErrors[i])
    /\ (status = "idle" /\ parses > 0) =>
          /\ result \in {"Block", "nullptr"}
          /\ (result = "nullptr") <=>
                (\E i \in DOMAIN CallErrors : Fatal(CallErrors[i]))
          /\ result = "nullptr" => errors # <<>>
          /\ result = "Block" =>
                \A i \in DOMAIN CallErrors : Recoverable(CallErrors[i])

\* A call that recorded a recoverable error, then a fatal one, and returned
\* nullptr.
C1_Witness ==
    /\ status = "idle" /\ result = "nullptr"
    /\ Len(CallErrors) = 2 /\ Recoverable(CallErrors[1]) /\ Fatal(CallErrors[2])

\* C2: on a fresh parser, right after a break or continue statement has been
\* parsed: nothing was reported if the lexical component is ForLoopBody,
\* otherwise exactly one recoverable error with the message of the lexical
\* component; and m_currentForLoopComponent is the lexical component at every
\* point of the parse (blocks, if and switch bodies leave it alone, the end of
\* a nested loop or function definition brings the outer one back).
C2_BreakContinueLexical ==
    (status = "parsing" /\ FreshStart) =>
        /\ m_currentForLoopComponent = LexComponent(stack)
        /\ ret.kind \in {"Break", "Continue"} =>
              LET which == IF ret.kind = "Break" THEN "break" ELSE "continue"
                  c == LexComponent(stack)
                  one(msg) == /\ emitted = 1
                              /\ Last(errors) =
                                    Error("SyntaxError", "Keyword \"" \o which \o msg)
              IN  /\ c = "ForLoopBody" => emitted = 0
                  /\ c = "None" => one("\" needs to be inside a for-loop body.")
                  /\ c = "ForLoopPre" => one("\" in for-loop init block is not allowed.")
                  /\ c = "ForLoopPost" => one("\" in for-loop post block is not allowed.")

\* A break in a function body inside a for-loop body: judged as outside any
\* loop.
C2_Witness ==
    /\ status = "parsing" /\ ret.kind = "Break" /\ emitted = 1
    /\ LexComponent(stack) = "None"
    /\ \E i \in 1..Len(stack) : stack[i].fn = "parseForLoop" /\ stack[i].pc = "body"

\* C3: on a fresh parser, right after a leave statement has been parsed: the
\* recoverable error was reported if and only if no function body encloses
\* it; and m_insideFunction says at every point of the parse whether a
\* function body encloses it (so the end of a definition brings back the
\* value from before it).
C3_LeaveLexical ==
    (status = "parsing" /\ FreshStart) =>
        /\ m_insideFunction = LexInsideFunction(stack)
        /\ ret.kind = "Leave" =>
              IF LexInsideFunction(stack)
              THEN emitted = 0
              ELSE /\ emitted = 1
                   /\ Last(errors) =
                         Error("SyntaxError",
                               "Keyword \"leave\" can only be used inside a function.")

\* A leave in a for-loop inside a function body: accepted.
C3_Witness ==
    /\ status = "parsing" /\ ret.kind = "Leave" /\ emitted = 0
    /\ \E i, j \in 1..Len(stack) :
          /\ i < j
          /\ stack[i].fn = "parseFunctionDefinition" /\ stack[i].pc = "body"
          /\ stack[j].fn = "parseForLoop"

\* C4: on a fresh parser, right after the `function` token of a definition
\* has been consumed: the recoverable error was reported, once, if and only
\* if the definition stands lexically in the pre block of the innermost
\* for-loop; no other step reports that message; the parse goes on, and every
\* FunctionDefinition node comes with its body.
C4_FunctionInForInit ==
    (status = "parsing" /\ FreshStart) =>
        LET msg == "Functions cannot be defined inside a for-loop init block."
            atToken == At("parseFunctionDefinition", "name")
        IN  /\ atToken =>
                  IF LexComponent(SubSeq(stack, 1, Len(stack) - 1)) = "ForLoopPre"
                  THEN /\ emitted = 1
                       /\ Last(errors) = Error("SyntaxError", msg)
                       /\ Last(stack).reported
                  ELSE emitted = 0 /\ ~Last(stack).reported
            /\ (emitted > 0 /\ Last(errors).msg = msg) => atToken
            /\ ret.kind = "FunctionDefinition" => ret.body.kind = "Block"

\* A definition in a for-loop's pre block has been parsed to its end after
\* the error was reported.
C4_Witness ==
    /\ status = "parsing" /\ ret.kind = "FunctionDefinition" /\ ret.reported
    /\ errors = <<Error("SyntaxError",
                        "Functions cannot be defined inside a for-loop init block.")>>

\* The misplaced keyword nodes that the productions of a frame sequence
\* have stored so far, outermost frame first.
RECURSIVE HeldIn(_)
HeldIn(frames) ==
    IF frames = <<>> THEN <<>>
    ELSE LET f == Head(frames)
         IN  f.statements \o Flat(f.blocks) \o Flat(CaseBlocks(f.cases))
             \o HeldIn(Tail(frames))

\* Every misplaced keyword node of the running call, or of the call that
\* returned last: those stored in the active productions, then those of the
\* node returned last.
HeldNodes == HeldIn(stack) \o Keywords(ret)

\* The keyword whose position check reports the diagnostic e, or "none".
KeywordOf(e) ==
    IF e.msg \in { "Keyword \"break\" needs to be inside a for-loop body.",
                   "Keyword \"break\" in for-loop init block is not allowed.",
                   "Keyword \"break\" in for-loop post block is not allowed." }
    THEN "Break"
    ELSE IF e.msg \in { "Keyword \"continue\" needs to be inside a for-loop body.",
                        "Keyword \"continue\" in for-loop init block is not allowed.",
                        "Keyword \"continue\" in for-loop post block is not allowed." }
    THEN "Continue"
    ELSE IF e.msg = "Keyword \"leave\" can only be used inside a function."
    THEN "Leave"
    ELSE "none"

IsKeywordError(e) == KeywordOf(e) # "none"

\* The keywords that the current call has reported as misplaced, in order.
ReportedKeywords ==
    LET es == SelectSeq(CallErrors, IsKeywordError)
    IN  [i \in 1..Len(es) |-> KeywordOf(es[i])]

\* C5: a misplaced break, continue or leave does not abort the parse.  While
\* a call runs, and after it has returned a Block, the misplaced keyword
\* nodes that the active productions and the node returned last hold are, in
\* order, the keywords that the call has reported as misplaced: none is
\* lost and none is stored without its error.  The step that meets such a
\* keyword reports one recoverable error, consumes the keyword and nothing
\* else, and returns the Break, Continue or Leave node to the enclosing
\* block; the block's next step appends the node to its statements and goes
\* on with its loop; a block that returns hands out the statements it has
\* collected; the sink of a running call only grows; and a call that ends
\* with a Block returns the root Block as parseBlock gave it, holding every
\* such node, with the sink as it was.
C5_MisplacedKeywordRecovers ==
    /\ [](  (status = "parsing" \/ (status = "idle" /\ result = "Block")) =>
              [i \in 1..Len(HeldNodes) |-> HeldNodes[i].kind] = ReportedKeywords )
    /\ [][ /\ \A kw \in {"Break", "Continue", "Leave"} :
                ( /\ At("parseStatement", "start")
                  /\ CASE kw = "Break"    -> tok.type = "Break"
                       [] kw = "Continue" -> tok.type = "Continue"
                       [] kw = "Leave"    -> IsLeave(tok)
                  /\ IF kw = "Leave" THEN ~m_insideFunction
                     ELSE m_currentForLoopComponent # "ForLoopBody" )
                => /\ status' = "parsing"
                   /\ ret' = Keyword(kw, TRUE)
                   /\ nexts' = 1
                   /\ stack' = SubSeq(stack, 1, Len(stack) - 1)
                   /\ Last(stack').fn = "parseBlock" /\ Last(stack').pc = "stmt"
                   /\ Len(errors') = Len(errors) + 1
                   /\ SubSeq(errors', 1, Len(errors)) = errors
                   /\ Recoverable(Last(errors'))
                   /\ KeywordOf(Last(errors')) = kw
                   /\ HeldNodes' = Append(HeldNodes, ret')
           /\ At("parseBlock", "stmt") =>
                 /\ status' = "parsing"
                 /\ stack' = [stack EXCEPT ![Len(stack)].pc = "loop",
                                           ![Len(stack)].statements = @ \o Keywords(ret)]
                 /\ (ret.kind \in {"Break", "Continue", "Leave"} /\ ret.misplaced) =>
                       Last(stack').statements = Append(Last(stack).statements, ret)
                 /\ errors' = errors
           /\ (At("parseBlock", "loop") /\ status' = "parsing"
                   /\ Len(stack') < Len(stack)) =>
                 /\ ret'.kind = "Block"
                 /\ ret'.statements = Last(stack).statements
           /\ (status = "parsing" /\ Len(errors') >= Len(errors)) =>
                 SubSeq(errors', 1, Len(errors)) = errors
           /\ status = "parsing" => Len(errors') >= Len(errors)
           /\ (status = "parsing" /\ result' = "Block") =>
                 /\ errors' = errors
                 /\ ret.kind = "Block" /\ ret' = ret
                 /\ ret'.statements = HeldNodes
         ]_vars

\* parse() has returned a Block after a misplaced break: the error is in the
\* sink and the Break node in the Block.
C5_Witness ==
    /\ status = "idle" /\ result = "Block"
    /\ CallErrors = <<Error("SyntaxError",
                            "Keyword \"break\" needs to be inside a for-loop body.")>>
    /\ ret.kind = "Block" /\ ret.statements = <<Keyword("Break", TRUE)>>

\* C6: every Switch node has at least one case, at most one default case (a
\* case without a value), and a default case only as its last case.
C6_SwitchCases ==
    ret.kind = "Switch" =>
        LET cases == ret.cases
            defaults == { i \in DOMAIN cases : cases[i].value = "none" }
        IN  /\ Len(cases) >= 1
            /\ Cardinality(defaults) <= 1
            /\ \A i \in defaults : i = Len(cases)

\* A Switch with two cases and a default.
C6_Witness ==
    /\ ret.kind = "Switch" /\ Len(ret.cases) = 3
    /\ ret.cases[3].value = "none" /\ ret.cases[1].value = "Literal"

\* C7: after a default clause, a `default` token is fatal with "Only one
\* default case allowed." and a `case` token with "Case not allowed after
\* default case."; after the scrutinee, a token that starts no clause is
\* fatal with "Switch statement without any cases."; each time parse returns
\* nullptr.
C7_SwitchFatals ==
    [][ /\ (At("parseStatement", "swDefault") /\ tok'.type = "Default")
              => EndsFatal("Only one default case allowed.")
        /\ (At("parseStatement", "swDefault") /\ tok'.type = "Case")
              => EndsFatal("Case not allowed after default case.")
        /\ (At("parseStatement", "swExpr") /\ tok'.type \notin {"Case", "Default"})
              => EndsFatal("Switch statement without any cases.")
      ]_vars

\* A second default clause has ended the call.
C7_Witness ==
    /\ status = "idle" /\ result = "nullptr" /\ tok.type = "Default"
    /\ Last(errors) = Error("ParserError", "Only one default case allowed.")

\* C8: a built-in as an assignment target, first or later in the list, ends
\* the call with the fatal error "Cannot assign to builtin function "add".".
\* The code asks for `(` right after a built-in name, before parseStatement
\* looks at the target.
C8_AssignToBuiltin ==
    [][ ( /\ At("parseElementaryOperation", "lparen")
          /\ stack[Len(stack) - 1].fn = "parseStatement"
          /\ stack[Len(stack) - 1].pc \in {"elem", "target"}
          /\ tok'.type \in {"AssemblyAssign", "Comma"} )
        => EndsFatal("Cannot assign to builtin function \"add\".")
      ]_vars

\* C9: after an elementary operation at statement level followed by none of
\* `(`, `,` and `:=`: the loose dialect accepts an Identifier or a Literal as
\* an ExpressionStatement and goes on; the typed dialect ends with the fatal
\* error "Call or assignment expected.".  The code raises the fatal error
\* in both dialects.
C9_LooseAcceptsBare ==
    [][ ( /\ At("parseStatement", "elem")
          /\ ret.kind \in {"Identifier", "Literal"}
          /\ tok' # Unread
          /\ tok'.type \notin {"LParen", "Comma", "AssemblyAssign"} )
        => IF flavour = "Loose"
           THEN /\ status' = "parsing"
                /\ ret'.kind = "ExpressionStatement"
                /\ errors' = errors
           ELSE EndsFatal("Call or assignment expected.")
      ]_vars

\* C10: when parse returns, with a Block or with nullptr, m_insideFunction
\* and m_currentForLoopComponent have the values they had when the call
\* started.  The code restores them only on the normal return of
\* parseForLoop and parseFunctionDefinition.
C10_ContextRestoredAtReturn ==
    (status = "idle" /\ parses > 0) =>
        /\ m_insideFunction = startInside
        /\ m_currentForLoopComponent = startComponent

\* C11: the location of every Assignment node begins at its first target
\* (targets are counted from 1 in the order they are written) and ends at
\* the end of its value.  The code takes the begin from `elementary`, which
\* holds the last target when the loop over the targets is left.
C11_AssignmentLocation ==
    ret.kind = "Assignment" => ret.begin = 1 /\ ret.end = "last"

\* The node kinds of the AST.
AstKinds ==
    {"Block", "VariableDeclaration", "Assignment", "If", "Switch", "Case",
     "ForLoop", "FunctionDefinition", "Break", "Continue", "Leave",
     "ExpressionStatement", "FunctionCall", "Identifier", "Literal", "TypedName"}

\* C12: the location of every node ends at the end of the last token consumed
\* while the node was parsed.  The code never sets the end of an If node
\* after createWithLocation, so it stays at the end of the `if` keyword.
C12_LocationEndsAtLastToken ==
    ret.kind \in AstKinds => EndOf(ret) = "last"

\* C13: in the typed flavour every Literal (switch case values included) and
\* every TypedName that the parser builds carries a non-empty type-name; in
\* the loose flavour no Literal and no TypedName carries a type-name.
C13_TypeAnnotations ==
    ret.kind \in {"Literal", "TypedName"} =>
        /\ flavour = "Yul" => ret.type # ""
        /\ flavour = "Loose" => ret.type = ""

\* A typed switch case value and, in the same flavour, a typed name exist:
\* the state right after parseCase received its literal with type "x".
C13_Witness ==
    /\ flavour = "Yul"
    /\ ret.kind = "Literal"
    /\ ret.type = "x"
    /\ stack # <<>>
    /\ Last(stack).fn = "parseCase"

\* The grammar productions, each of which holds a RecursionGuard.
Productions ==
    {"parseBlock", "parseStatement", "parseCase", "parseForLoop",
     "parseExpression", "parseElementaryOperation", "parseVariableDeclaration",
     "parseFunctionDefinition", "parseCall", "parseTypedName"}

ActiveProductions == Cardinality({i \in DOMAIN stack : stack[i].fn \in Productions})

\* C14: the recursion depth is 0 when parse starts, equals at every moment
\* the number of active grammar productions, is back at 0 after a normal
\* return and after a fatal unwind, and never exceeds the bound: nesting
\* beyond the bound ends with a fatal error and parse returns nothing.
C14_RecursionDepth ==
    /\ m_recursionDepth = ActiveProductions
    /\ m_recursionDepth <= MaxRecursionDepth
    /\ status = "idle" => m_recursionDepth = 0
    /\ status = "parsing" => stack[1].fn = "parse" /\ Len(stack) = m_recursionDepth + 1
    /\ \A i \in DOMAIN CallErrors :
          CallErrors[i].msg = "Maximum recursion depth reached during parsing."
              => status = "idle" /\ result = "nullptr" /\ i = Len(CallErrors)

\* An input nested deeper than the bound: the parse ended with the fatal
\* error of the guard and the counter is back at 0.
C14_Witness ==
    /\ status = "idle"
    /\ result = "nullptr"
    /\ errors # <<>>
    /\ Last(errors).msg = "Maximum recursion depth reached during parsing."
    /\ m_recursionDepth = 0

\* C15: the parameter list of a function definition is strictly
\* comma-separated: once a parameter and a `,` have been read, the loop has
\* to parse another typed name or the parse ends fatally, so `(a:t,)` is
\* rejected.
C15_ParameterListStrict ==
    [][ At("parseFunctionDefinition", "params") /\ Last(stack).names # <<>>
            => \/ status' = "idle" /\ result' = "nullptr"
               \/ stack' # <<>> /\ Last(stack').fn = "parseTypedName" ]_vars

\* C16: an assignment target that is a Literal ends the call with a fatal
\* error, as the first target and after a `,` alike, and the token after the
\* target selects the message: `,` gives 'Variable name must precede ","
\* in multiple assignment.' and `:=` gives 'Variable name must precede ":="
\* in assignment.'; the message is never "Call or assignment expected.".
C16_LiteralTarget ==
    [][ ( /\ At("parseStatement", "elem") \/ At("parseStatement", "target")
          /\ ret.kind = "Literal" )
        => /\ tok'.type = "Comma" =>
                EndsFatal("Variable name must precede \",\" in multiple assignment.")
           /\ tok'.type = "AssemblyAssign" =>
                EndsFatal("Variable name must precede \":=\" in assignment.")
           /\ At("parseStatement", "target") =>
                status' = "idle" /\ result' = "nullptr"
      ]_vars

\* `1:u256, x := ...`: the call ended at the `,` with the "," message.
C16_Witness ==
    /\ flavour = "Yul"
    /\ status = "idle" /\ result = "nullptr" /\ tok.type = "Comma"
    /\ Last(errors) = Error("ParserError",
                            "Variable name must precede \",\" in multiple assignment.")

\* C17: a fatal error aborts the parse at once.  A call emits at most one
\* fatal diagnostic and it is the last diagnostic of the call; the call is
\* then over and has returned no AST; until parse is called again no token
\* is consumed and the sink does not change, so the recoverable errors
\* recorded before the fatal one are still in it.
C17_FatalAborts ==
    [][ /\ \A i \in DOMAIN CallErrors' :
              Fatal(CallErrors'[i]) =>
                 /\ i = Len(CallErrors')
                 /\ status' = "idle" /\ stack' = <<>> /\ result' = "nullptr"
        /\ \A i \in DOMAIN errors :
              Recoverable(errors[i]) /\ status = "parsing" =>
                 i \in DOMAIN errors' /\ errors'[i] = errors[i]
        /\ (CallErrors # <<>> /\ Fatal(Last(CallErrors)) /\ parses' = parses) =>
              tok' = tok /\ errors' = errors /\ result' = result
      ]_vars

\* A misplaced keyword was reported and parsing went on; later a fatal error
\* ended the call: both diagnostics are in the sink, the fatal one last.
C17_Witness ==
    /\ status = "idle" /\ result = "nullptr"
    /\ Len(errors) = startErrors + 2
    /\ Recoverable(errors[startErrors + 1])
    /\ Fatal(errors[startErrors + 2])

\* The tables as §4.13 defines them over the opcode table of the model.
CompleteInstructions == {<<"add", "ADD">>, <<"selfdestruct", "SELFDESTRUCT">>}

CompleteInstructionNames ==
    {<<"ADD", "add">>, <<"SELFDESTRUCT", "selfdestruct">>, <<"KECCAK256", "keccak256">>}

\* C18: once a call of instructions() or instructionNames() has returned a
\* table, that table is complete and is never modified again, also when
\* several threads make their first calls at the same time.
C18_TablesImmutable ==
    /\ "s_instructions" \in visible
          => s_instructions = Map(CompleteInstructions)
    /\ "s_instructionNames" \in visible
          => s_instructionNames = Map(CompleteInstructionNames)

\* C19: a built-in name occurs in the AST only as the function name of a
\* FunctionCall: no Identifier, assignment target, declared variable,
\* parameter, return variable, function name or type-name is a built-in; and
\* once a built-in name token has been consumed, the token after it is `(`
\* or the call ends with a fatal error and returns no Block.
C19_BuiltinOnlyCalled ==
    /\ ret.kind \in {"Identifier", "YulString"} => ~builtin(ret.name)
    /\ ret.kind = "TypedName" => ~builtin(ret.name) /\ ~builtin(ret.type)
    /\ ret.kind = "Literal" => ~builtin(ret.type)
    /\ ret.kind = "Assignment" =>
          \A i \in DOMAIN ret.variableNames : ~builtin(ret.variableNames[i])
    /\ \A i \in DOMAIN stack :
          \A j \in DOMAIN stack[i].names : ~builtin(stack[i].names[j])
    /\ prevBuiltin =>
          \/ status = "idle" /\ result = "nullptr"
          \/ /\ status = "parsing"
             /\ IF tok = Unread THEN At("parseElementaryOperation", "lparen")
                ELSE tok.type = "LParen"

\* `add x`: the built-in name was consumed, the next token is not `(`, and
\* the call ended with the fatal error of expectToken.
C19_Witness ==
    /\ prevBuiltin
    /\ status = "idle" /\ result = "nullptr"
    /\ tok.type = "Identifier"
    /\ Last(errors) = Error("ParserError", "Expected LParen")

\* C20: parse terminates on every finite token stream: a running call never
\* makes more than six steps in a row without consuming a token, so every
\* round of every parsing loop consumes a token or ends the call, and no
\* loop spins on EOS or on an unexpected token.  (Six is the longest such
\* run: the returns from the value of a declaration up to the block, then
\* the calls down to the elementary operation of the next statement.)
C20_Progress == quiet <= 6

\* EOS inside a block: the statement loop did not spin on it, the call
\* ended with a fatal error.
C20_Witness ==
    /\ status = "idle" /\ result = "nullptr"
    /\ tok = EOS
    /\ Last(errors).msg \in {"Literal or identifier expected.",
                             "Literal, identifier or instruction expected."}

====
